---- MODULE Spec2Model ----
(***************************************************************************)
(* Model of scripts/bench_neovide_ipc.py: the one-shot JSON-RPC exchange   *)
(* send_rpc, the identifier extraction first_window_id and the benchmark   *)
(* loop main, together with the peer behind the unix socket.               *)
(*                                                                         *)
(* Bytes on the wire are modelled as lexical tokens of JSON text (one      *)
(* token stands for the bytes that spell it), "LF" is the byte b"\n" and   *)
(* "xFF" is a byte that is not valid UTF-8.  Decoded JSON values are       *)
(* records with a type tag, so that values of different Python types can   *)
(* be compared.  Time is counted in ticks; Timeout ticks make the 2.0      *)
(* seconds of settimeout.                                                  *)
(***************************************************************************)
EXTENDS Integers, Sequences, FiniteSets, TLC

VARIABLES
    DO_CREATE,    \* configuration flag (line 12)
    DO_ACTIVATE,  \* configuration flag (line 13)
    runState,     \* "running", "completed", "failed", "interrupted"
    exitStatus,   \* process exit status once the run is over, -1 before
    raised,       \* the exception that is propagating / ended the run
    i,            \* loop variable of main (line 74)
    step,         \* call site of main: "List", "Create", "Activate", "Sleep"
    phase,        \* position inside bench/send_rpc
    sock,         \* "none", "open", "closed": the socket of the current call
    nconn,        \* number of sockets created so far; the current one's id
    waited,       \* ticks the current blocking socket operation has waited
    elapsed,      \* ticks since settimeout of the current call (saturating)
    req,          \* payload of the current send_rpc call
    buf,          \* buf of send_rpc
    loopExit,     \* how the read loop of the current call ended, or "none"
    resp,         \* resp of bench: the value send_rpc returned
    list_id,      \* locals of main
    create_id,
    target_id,
    sent,         \* requests written in full during the current iteration
    skips,        \* skip notices printed during the current iteration
    got,          \* identifiers extracted during the current iteration
    total,        \* requests written in full over the run, per method
    slept,        \* completed time.sleep calls
    peerPlan,     \* the peer's reply on the current connection (index) or 0
    peerPos,      \* tokens of the plan the peer has written so far
    peerEnd,      \* the peer's end of the connection: "open", "closed", "reset"
    inbox,        \* bytes readable on the current connection
    written,      \* bytes the peer wrote on the current connection
    readTimeouts, \* socket.timeout exceptions caught in the current call
    lateConn,     \* id of an older connection the peer still writes to, or 0
    lateBytes,    \* what the peer still has to write on lateConn (<<>>: done)
    stubOnly,     \* every reply the peer chose so far is {"result": []}
    fw_in,        \* argument of first_window_id (extraction specification)
    fw_out,       \* its outcome
    fw_pc         \* "in" before the call, "out" after it

vars == <<DO_CREATE, DO_ACTIVATE, runState, exitStatus, raised, i, step, phase,
          sock, nconn, waited, elapsed, req, buf, loopExit, resp, list_id,
          create_id, target_id, sent, skips, got, total, slept, peerPlan, peerPos,
          peerEnd, inbox, written, readTimeouts, lateConn, lateBytes, stubOnly,
          fw_in, fw_out, fw_pc>>

mainVars == <<DO_CREATE, DO_ACTIVATE, runState, exitStatus, raised, i, step,
              phase, sock, nconn, waited, elapsed, req, buf, loopExit, resp,
              list_id, create_id, target_id, sent, skips, got, total, slept,
              peerPlan, peerPos, peerEnd, inbox, written, readTimeouts, lateConn,
              lateBytes, stubOnly>>

fwVars == <<fw_in, fw_out, fw_pc>>

(***************************************************************************)
(* Bounds and program constants                                            *)
(***************************************************************************)
\* iterations of the loop (the script's default is 10)
COUNT == 2

\* s.settimeout(2.0), in ticks
Timeout == 2

\* the elapsed-time counter saturates here
MaxElapsed == 3

\* the peer writes late only a rest of at most this many tokens
MaxLate == 1

(***************************************************************************)
(* JSON values                                                             *)
(***************************************************************************)
Null == [t |-> "null", n |-> 0, s |-> "", items |-> <<>>, keys |-> <<>>]

Num(k) == [t |-> "num", n |-> k, s |-> "", items |-> <<>>, keys |-> <<>>]

Str(x) == [t |-> "str", n |-> 0, s |-> x, items |-> <<>>, keys |-> <<>>]

List(xs) == [t |-> "list", n |-> 0, s |-> "", items |-> xs, keys |-> <<>>]

Dict(ks, vs) == [t |-> "dict", n |-> 0, s |-> "", items |-> vs, keys |-> ks]

\* the empty Response {}
EmptyResp == Dict(<<>>, <<>>)

\* Python truth value of a decoded value
Truthy(v) ==
    CASE v.t = "null" -> FALSE
      [] v.t = "num"  -> v.n # 0
      [] v.t = "str"  -> v.s # ""
      [] v.t = "list" -> v.items # <<>>
      [] v.t = "dict" -> v.keys # <<>>

\* a or b
Or(a, b) == IF Truthy(a) THEN a ELSE b

HasKey(d, k) == \E j \in 1..Len(d.keys) : d.keys[j] = k

\* d.get(k): None when the key is absent
Get(d, k) ==
    IF HasKey(d, k)
    THEN d.items[CHOOSE j \in 1..Len(d.keys) : d.keys[j] = k]
    ELSE Null

\* d[k] = v while a dict is built: a repeated key keeps its place
Put(d, k, v) ==
    IF HasKey(d, k)
    THEN LET j == CHOOSE x \in 1..Len(d.keys) : d.keys[x] = k
         IN Dict(d.keys, [d.items EXCEPT ![j] = v])
    ELSE Dict(Append(d.keys, k), Append(d.items, v))

(***************************************************************************)
(* json.loads(buf.decode("utf-8")) over tokens                             *)
(***************************************************************************)
StrToks == {"'result'", "'windows'", "'window_id'", "'id'", "'windowId'",
            "'W1'", "'W2'", "''"}

NumToks == {"0", "5"}

StrVal(tok) ==
    CASE tok = "'result'"    -> "result"
      [] tok = "'windows'"   -> "windows"
      [] tok = "'window_id'" -> "window_id"
      [] tok = "'id'"        -> "id"
      [] tok = "'windowId'"  -> "windowId"
      [] tok = "'W1'"        -> "W1"
      [] tok = "'W2'"        -> "W2"
      [] tok = "''"          -> ""

NumVal(tok) == IF tok = "5" THEN 5 ELSE 0

ParseFail == [ok |-> FALSE, v |-> Null, rest |-> <<>>]

ParseOk(val, rest) == [ok |-> TRUE, v |-> val, rest |-> rest]

RECURSIVE ParseValue(_)
RECURSIVE ParseElems(_, _)
RECURSIVE ParseMembers(_, _)

ParseValue(ts) ==
    IF ts = <<>> THEN ParseFail
    ELSE LET h == Head(ts) IN
         CASE h = "null"    -> ParseOk(Null, Tail(ts))
           [] h \in NumToks -> ParseOk(Num(NumVal(h)), Tail(ts))
           [] h \in StrToks -> ParseOk(Str(StrVal(h)), Tail(ts))
           [] h = "["       -> IF Len(ts) >= 2 /\ ts[2] = "]"
                               THEN ParseOk(List(<<>>), SubSeq(ts, 3, Len(ts)))
                               ELSE ParseElems(Tail(ts), <<>>)
           [] h = "{"       -> IF Len(ts) >= 2 /\ ts[2] = "}"
                               THEN ParseOk(EmptyResp, SubSeq(ts, 3, Len(ts)))
                               ELSE ParseMembers(Tail(ts), EmptyResp)
           [] OTHER         -> ParseFail

ParseElems(ts, acc) ==
    LET r == ParseValue(ts) IN
    IF ~r.ok \/ r.rest = <<>> THEN ParseFail
    ELSE IF Head(r.rest) = "," THEN ParseElems(Tail(r.rest), Append(acc, r.v))
    ELSE IF Head(r.rest) = "]" THEN ParseOk(List(Append(acc, r.v)), Tail(r.rest))
    ELSE ParseFail

ParseMembers(ts, acc) ==
    IF Len(ts) < 3 \/ ts[1] \notin StrToks \/ ts[2] # ":" THEN ParseFail
    ELSE LET r == ParseValue(SubSeq(ts, 3, Len(ts))) IN
         IF ~r.ok \/ r.rest = <<>> THEN ParseFail
         ELSE LET d == Put(acc, StrVal(ts[1]), r.v) IN
              IF Head(r.rest) = "," THEN ParseMembers(Tail(r.rest), d)
              ELSE IF Head(r.rest) = "}" THEN ParseOk(d, Tail(r.rest))
              ELSE ParseFail

\* buf.decode("utf-8") raises on a byte that is not UTF-8
Utf8Ok(bs) == \A j \in 1..Len(bs) : bs[j] # "xFF"

\* json.loads(buf.decode("utf-8")): ok is FALSE when an exception is raised
Loads(bs) ==
    IF ~Utf8Ok(bs) THEN ParseFail
    ELSE LET r == ParseValue(bs) IN
         IF r.ok /\ r.rest = <<>> THEN r ELSE ParseFail

\* (mutant) a payload that fails to decode yields None instead of {}
DecodePayloadNoCatch(bs) ==
    IF bs = <<>> THEN EmptyResp
    ELSE Loads(bs).v

\* lines 34-39 of send_rpc: the value returned for a candidate payload
DecodePayload(bs) ==
    IF bs = <<>> THEN EmptyResp
    ELSE IF Loads(bs).ok THEN Loads(bs).v
    ELSE EmptyResp

(***************************************************************************)
(* first_window_id                                                         *)
(***************************************************************************)
\* (mutant) id is looked up before window_id
KeyChainIdFirst(m) ==
    Or(Get(m, "id"), Or(Get(m, "window_id"), Or(Get(m, "windowId"), Str(""))))

\* m.get("window_id") or m.get("id") or m.get("windowId") or ""
KeyChain(m) ==
    Or(Get(m, "window_id"), Or(Get(m, "id"), Or(Get(m, "windowId"), Str(""))))

Returns(val) == [exc |-> "none", v |-> val]

Raises(e) == [exc |-> e, v |-> Null]

first_window_id(r) ==
    IF r.t # "dict" THEN Raises("AttributeError")
    ELSE
    LET res == Get(r, "result") IN
    IF res.t = "list" /\ res.items # <<>> /\ res.items[1].t = "str"
    THEN Returns(res.items[1])
    ELSE IF res.t = "list" /\ res.items # <<>> /\ res.items[1].t = "dict"
    THEN Returns(KeyChain(res.items[1]))
    ELSE IF res.t = "dict"
    THEN LET windows == Get(res, "windows") IN
         IF windows.t = "list" /\ windows.items # <<>>
            /\ windows.items[1].t = "str"
         THEN Returns(windows.items[1])
         ELSE IF windows.t = "list" /\ windows.items # <<>>
                 /\ windows.items[1].t = "dict"
         THEN Returns(KeyChain(windows.items[1]))
         ELSE Returns(KeyChain(res))
    ELSE Returns(Str(""))

(***************************************************************************)
(* The peer: what it may write on a connection                             *)
(***************************************************************************)
Replies == <<
    <<"{", "'result'", ":", "[", "]", "}", "LF">>,
    <<"{", "'result'", ":", "[", "'W1'", "]", "}", "LF">>,
    <<"{", "'result'", ":", "{", "'id'", ":", "'W2'", "}", "}", "LF">>,
    <<"[", "]", "LF">>,
    <<"'W1'", "LF">>,
    <<"5", "LF">>,
    <<"xFF", "LF">>,
    <<"{", "}", "LF", "{", "}">>
  >>

\* the reply of the stub server: {"result": []}
StubReply == 1

\* plan 0: the peer reads the request, never writes and never closes
Silent == 0

Plans == {Silent} \cup (1..Len(Replies))

PlanBytes(p) == IF p = Silent THEN <<>> ELSE Replies[p]

(***************************************************************************)
(* Requests built by main                                                  *)
(***************************************************************************)
NoReq == [method |-> "none", id |-> 0, window_id |-> Null]

ListReq == [method |-> "ListWindows", id |-> 1, window_id |-> Null]

\* (mutant) CreateWindow reuses the id of ListWindows
CreateReqId1 == [method |-> "CreateWindow", id |-> 1, window_id |-> Null]

CreateReq == [method |-> "CreateWindow", id |-> 2, window_id |-> Null]

ActivateReq(w) == [method |-> "ActivateWindow", id |-> 3, window_id |-> w]

Methods == {"ListWindows", "CreateWindow", "ActivateWindow"}

(***************************************************************************)
(* Helpers of the exchange                                                 *)
(***************************************************************************)
Min(a, b) == IF a < b THEN a ELSE b

HasLF(bs) == \E j \in 1..Len(bs) : bs[j] = "LF"

FirstLF(bs) == CHOOSE j \in 1..Len(bs) : bs[j] = "LF" /\ \A k \in 1..(j - 1) : bs[k] # "LF"

\* (mutant) the buffer is taken whole, terminator and what follows included
KeepAll(bs) == bs

\* buf.split(b"\n", 1)[0]
BeforeLF(bs) == SubSeq(bs, 1, FirstLF(bs) - 1)

IsPrefix(a, b) == Len(a) <= Len(b) /\ SubSeq(b, 1, Len(a)) = a

\* (mutant) one connection is kept for all calls: whatever the peer writes
\* is readable on the socket in use
DeliverShared(c, bytes) ==
    IF sock = "open" THEN inbox \o bytes ELSE inbox

\* Where bytes written by the peer on connection c become readable: on the
\* client's socket of that same connection, and nowhere once it is closed.
Deliver(c, bytes) ==
    IF sock = "open" /\ c = nconn THEN inbox \o bytes ELSE inbox

\* the process ends: its locals and the peer's connection state are gone
ProcessGone ==
    /\ req' = NoReq
    /\ buf' = <<>>
    /\ resp' = EmptyResp
    /\ list_id' = Str("")
    /\ create_id' = Str("")
    /\ target_id' = Str("")
    /\ waited' = 0
    /\ elapsed' = 0
    /\ loopExit' = "none"
    /\ readTimeouts' = 0
    /\ peerPlan' = Silent
    /\ peerPos' = 0
    /\ peerEnd' = "open"
    /\ inbox' = <<>>
    /\ written' = <<>>
    /\ lateConn' = 0
    /\ lateBytes' = <<>>

\* (mutant) the exception is caught on the way up and the call yields {}
PropagateCaught(e) ==
    /\ raised' = e
    /\ sock' = IF sock = "open" THEN "closed" ELSE sock
    /\ UNCHANGED <<runState, exitStatus>>
    /\ ProcessGone

\* (mutant) the socket is not released when an exception passes
PropagateLeak(e) ==
    /\ raised' = e
    /\ sock' = sock
    /\ runState' = "failed"
    /\ exitStatus' = 1
    /\ ProcessGone

\* an exception leaves the with block (the socket is closed), bench and main,
\* and is not caught at line 114: traceback, exit status 1
Propagate(e) ==
    /\ raised' = e
    /\ sock' = IF sock = "open" THEN "closed" ELSE sock
    /\ runState' = "failed"
    /\ exitStatus' = 1
    /\ ProcessGone

\* what the peer may still write after the client has closed the socket
Leftover ==
    IF /\ peerEnd = "open" /\ peerPlan # Silent
       /\ peerPos < Len(PlanBytes(peerPlan))
       /\ Len(PlanBytes(peerPlan)) - peerPos <= MaxLate
    THEN SubSeq(PlanBytes(peerPlan), peerPos + 1, Len(PlanBytes(peerPlan)))
    ELSE <<>>

(***************************************************************************)
(* Initial state                                                           *)
(***************************************************************************)
MainInit ==
    /\ runState = "running"
    /\ exitStatus = -1
    /\ raised = "none"
    /\ i = 1
    /\ step = "List"
    /\ phase = "idle"
    /\ sock = "none"
    /\ nconn = 0
    /\ waited = 0
    /\ elapsed = 0
    /\ req = NoReq
    /\ buf = <<>>
    /\ loopExit = "none"
    /\ resp = EmptyResp
    /\ list_id = Str("")
    /\ create_id = Str("")
    /\ target_id = Str("")
    /\ sent = <<>>
    /\ skips = 0
    /\ got = <<>>
    /\ total = [m \in Methods |-> 0]
    /\ slept = 0
    /\ peerPlan = Silent
    /\ peerPos = 0
    /\ peerEnd = "open"
    /\ inbox = <<>>
    /\ written = <<>>
    /\ readTimeouts = 0
    /\ lateConn = 0
    /\ lateBytes = <<>>
    /\ stubOnly = TRUE

FwIdle ==
    /\ fw_in = EmptyResp
    /\ fw_out = Returns(Str(""))
    /\ fw_pc = "idle"

Init ==
    /\ DO_CREATE \in BOOLEAN
    /\ DO_ACTIVATE \in BOOLEAN
    /\ MainInit
    /\ FwIdle

(***************************************************************************)
(* send_rpc                                                                *)
(***************************************************************************)
\* lines 17-19: bench calls send_rpc, which creates the socket and sets the
\* timeout
OpenSocket(r) ==
    /\ req' = r
    /\ sock' = "open"
    /\ nconn' = nconn + 1
    /\ waited' = 0
    /\ elapsed' = 0
    /\ phase' = "connect"
    /\ loopExit' = "none"
    /\ readTimeouts' = 0
    /\ peerPlan' = Silent
    /\ peerPos' = 0
    /\ peerEnd' = "open"
    /\ inbox' = <<>>
    /\ written' = <<>>

\* a tick of the clock while a socket operation blocks
Tick ==
    /\ runState = "running"
    /\ \/ phase \in {"connect", "send"}
       \/ phase = "recv" /\ inbox = <<>> /\ peerEnd = "open"
    /\ waited < Timeout
    /\ waited' = waited + 1
    /\ elapsed' = Min(elapsed + 1, MaxElapsed)
    /\ UNCHANGED <<DO_CREATE, DO_ACTIVATE, runState, exitStatus, raised, i,
                   step, phase, sock, nconn, req, buf, loopExit, resp, list_id,
                   create_id, target_id, sent, skips, got, total, slept, peerPlan,
                   peerPos, peerEnd, inbox, written, readTimeouts, lateConn,
                   lateBytes, stubOnly, fwVars>>

\* line 20: s.connect(SOCK) succeeds; the peer accepts and settles its reply
ConnectOk ==
    /\ runState = "running" /\ phase = "connect"
    /\ \E p \in Plans :
          /\ peerPlan' = p
          /\ stubOnly' = (stubOnly /\ p = StubReply)
    /\ phase' = "send"
    /\ waited' = 0
    /\ UNCHANGED <<DO_CREATE, DO_ACTIVATE, runState, exitStatus, raised, i,
                   step, sock, nconn, elapsed, req, buf, loopExit, resp,
                   list_id, create_id, target_id, sent, skips, got, total, slept,
                   peerPos, peerEnd, inbox, written, readTimeouts, lateConn,
                   lateBytes, fwVars>>

\* line 20: the endpoint is missing or refuses
ConnectFail ==
    /\ runState = "running" /\ phase = "connect"
    /\ \E e \in {"FileNotFoundError", "ConnectionRefusedError"} : Propagate(e)
    /\ UNCHANGED <<DO_CREATE, DO_ACTIVATE, i, step, phase, nconn, sent, skips, got,
                   total, slept, stubOnly, fwVars>>

\* line 20: the connect blocks (backlog full) until the timeout
ConnectTimeout ==
    /\ runState = "running" /\ phase = "connect"
    /\ waited = Timeout
    /\ Propagate("timeout")
    /\ UNCHANGED <<DO_CREATE, DO_ACTIVATE, i, step, phase, nconn, sent, skips, got,
                   total, slept, stubOnly, fwVars>>

\* lines 21-22: s.sendall(data) completes
SendComplete ==
    /\ runState = "running" /\ phase = "send"
    /\ peerEnd = "open"
    /\ sent' = Append(sent, req)
    /\ total' = [total EXCEPT ![req.method] = @ + 1]
    /\ buf' = <<>>
    /\ phase' = "recv"
    /\ waited' = 0
    /\ UNCHANGED <<DO_CREATE, DO_ACTIVATE, runState, exitStatus, raised, i,
                   step, sock, nconn, elapsed, req, loopExit, resp, list_id,
                   create_id, target_id, skips, got, slept, peerPlan, peerPos,
                   peerEnd, inbox, written, readTimeouts, lateConn, lateBytes,
                   stubOnly, fwVars>>

\* line 21: the peer stops accepting bytes; sendall raises socket.timeout,
\* which nothing catches
SendTimeout ==
    /\ runState = "running" /\ phase = "send"
    /\ peerEnd = "open"
    /\ waited = Timeout
    /\ Propagate("timeout")
    /\ UNCHANGED <<DO_CREATE, DO_ACTIVATE, i, step, phase, nconn, sent, skips, got,
                   total, slept, stubOnly, fwVars>>

\* line 21: the peer has closed; sendall raises BrokenPipeError
SendBrokenPipe ==
    /\ runState = "running" /\ phase = "send"
    /\ peerEnd # "open"
    /\ Propagate("BrokenPipeError")
    /\ UNCHANGED <<DO_CREATE, DO_ACTIVATE, i, step, phase, nconn, sent, skips, got,
                   total, slept, stubOnly, fwVars>>

\* the with block is left: the socket is closed, lines 34-39 come next
LeaveLoop(how) ==
    /\ loopExit' = how
    /\ sock' = "closed"
    /\ phase' = "decode"

\* lines 25, 28-33: recv returns what is readable: the next k tokens the peer
\* writes, after anything already delivered to this socket
RecvChunk ==
    /\ runState = "running" /\ phase = "recv"
    /\ peerEnd # "reset"
    /\ \E k \in 0..(Len(PlanBytes(peerPlan)) - peerPos) :
          LET chunk == SubSeq(PlanBytes(peerPlan), peerPos + 1, peerPos + k)
              data  == Deliver(nconn, chunk)
          IN
          /\ k > 0 => peerEnd = "open"
          /\ data # <<>>
          /\ peerPos' = peerPos + k
          /\ written' = written \o chunk
          /\ inbox' = <<>>
          /\ IF HasLF(buf \o data)
             THEN /\ buf' = BeforeLF(buf \o data)
                  /\ loopExit' = "terminator"
                  /\ sock' = "closed"
                  /\ phase' = "decode"
                  /\ UNCHANGED waited
             ELSE /\ buf' = buf \o data
                  /\ waited' = 0
                  /\ UNCHANGED <<loopExit, sock, phase>>
    /\ UNCHANGED <<DO_CREATE, DO_ACTIVATE, runState, exitStatus, raised, i,
                   step, nconn, elapsed, req, resp, list_id, create_id,
                   target_id, sent, skips, got, total, slept, peerPlan, peerEnd,
                   readTimeouts, lateConn, lateBytes, stubOnly, fwVars>>

\* lines 25, 28-29: the peer has closed, recv returns b""
RecvEOF ==
    /\ runState = "running" /\ phase = "recv"
    /\ inbox = <<>>
    /\ peerEnd = "closed"
    /\ LeaveLoop("eof")
    /\ UNCHANGED <<DO_CREATE, DO_ACTIVATE, runState, exitStatus, raised, i,
                   step, nconn, waited, elapsed, req, buf, resp, list_id,
                   create_id, target_id, sent, skips, got, total, slept, peerPlan,
                   peerPos, peerEnd, inbox, written, readTimeouts, lateConn,
                   lateBytes, stubOnly, fwVars>>

\* (mutant) the timeout is caught but the loop goes on reading
RecvTimeoutContinue ==
    /\ runState = "running" /\ phase = "recv"
    /\ inbox = <<>>
    /\ peerEnd = "open"
    /\ waited = Timeout
    /\ readTimeouts' = 1
    /\ waited' = 0
    /\ UNCHANGED <<DO_CREATE, DO_ACTIVATE, runState, exitStatus, raised, i,
                   step, phase, sock, nconn, elapsed, req, buf, loopExit, resp,
                   list_id, create_id, target_id, sent, skips, got, total, slept,
                   peerPlan, peerPos, peerEnd, inbox, written, lateConn,
                   lateBytes, stubOnly, fwVars>>

\* (mutant) what was accumulated is dropped when the read times out
RecvTimeoutDiscard ==
    /\ runState = "running" /\ phase = "recv"
    /\ inbox = <<>>
    /\ peerEnd = "open"
    /\ waited = Timeout
    /\ readTimeouts' = readTimeouts + 1
    /\ LeaveLoop("timeout")
    /\ buf' = <<>>
    /\ UNCHANGED <<DO_CREATE, DO_ACTIVATE, runState, exitStatus, raised, i,
                   step, nconn, waited, elapsed, req, resp, list_id,
                   create_id, target_id, sent, skips, got, total, slept, peerPlan,
                   peerPos, peerEnd, inbox, written, lateConn, lateBytes,
                   stubOnly, fwVars>>

\* lines 25-27: recv raises socket.timeout, which is caught
RecvTimeout ==
    /\ runState = "running" /\ phase = "recv"
    /\ inbox = <<>>
    /\ peerEnd = "open"
    /\ waited = Timeout
    /\ readTimeouts' = readTimeouts + 1
    /\ LeaveLoop("timeout")
    /\ UNCHANGED <<DO_CREATE, DO_ACTIVATE, runState, exitStatus, raised, i,
                   step, nconn, waited, elapsed, req, buf, resp, list_id,
                   create_id, target_id, sent, skips, got, total, slept, peerPlan,
                   peerPos, peerEnd, inbox, written, lateConn, lateBytes,
                   stubOnly, fwVars>>

\* line 25: the peer closed without reading the request; recv raises
\* ConnectionResetError
RecvReset ==
    /\ runState = "running" /\ phase = "recv"
    /\ peerEnd = "reset"
    /\ Propagate("ConnectionResetError")
    /\ UNCHANGED <<DO_CREATE, DO_ACTIVATE, i, step, phase, nconn, sent, skips, got,
                   total, slept, stubOnly, fwVars>>

\* lines 34-39 and line 64: send_rpc returns to bench; its locals and the
\* connection are gone (written is kept as the record of this exchange until
\* the caller has taken the value)
Decode ==
    /\ runState = "running" /\ phase = "decode"
    /\ resp' = DecodePayload(buf)
    /\ buf' = <<>>
    /\ phase' = "ret"
    /\ waited' = 0
    /\ elapsed' = 0
    /\ peerPlan' = Silent
    /\ peerPos' = 0
    /\ peerEnd' = "open"
    /\ inbox' = <<>>
    /\ lateConn' = IF Leftover # <<>> THEN nconn ELSE 0
    /\ lateBytes' = Leftover
    /\ UNCHANGED <<DO_CREATE, DO_ACTIVATE, runState, exitStatus, raised, i,
                   step, sock, nconn, req, loopExit, list_id, create_id,
                   target_id, sent, skips, got, total, slept, readTimeouts,
                   written,
                   stubOnly, fwVars>>

(***************************************************************************)
(* The peer's steps                                                        *)
(***************************************************************************)
\* the peer closes its end: before reading the request (send phase), after
\* reading it ("closed") or with the request unread ("reset")
PeerClose ==
    /\ runState = "running" /\ phase \in {"send", "recv"}
    /\ peerEnd = "open" /\ peerPlan # Silent
    /\ \E e \in {"closed", "reset"} :
          /\ (phase = "send" => e = "closed")
          /\ peerEnd' = e
    /\ UNCHANGED <<DO_CREATE, DO_ACTIVATE, runState, exitStatus, raised, i,
                   step, phase, sock, nconn, waited, elapsed, req, buf,
                   loopExit, resp, list_id, create_id, target_id, sent, skips, got,
                   total, slept, peerPlan, peerPos, inbox, written,
                   readTimeouts, lateConn, lateBytes, stubOnly, fwVars>>

\* the peer writes the rest of a reply on a connection the client has closed
PeerLateWrite ==
    /\ runState = "running"
    /\ lateConn # 0 /\ lateBytes # <<>>
    /\ inbox' = Deliver(lateConn, lateBytes)
    /\ lateBytes' = <<>>
    /\ UNCHANGED <<lateConn, DO_CREATE, DO_ACTIVATE, runState, exitStatus, raised, i,
                   step, phase, sock, nconn, waited, elapsed, req, buf,
                   loopExit, resp, list_id, create_id, target_id, sent, skips, got,
                   total, slept, peerPlan, peerPos, peerEnd, written,
                   readTimeouts, stubOnly, fwVars>>

(***************************************************************************)
(* main                                                                    *)
(***************************************************************************)
exchangeVars == <<req, sock, nconn, waited, elapsed, phase, loopExit,
                  readTimeouts, peerPlan, peerPos, peerEnd, inbox, written>>

\* line 77: bench("ListWindows", ...)
CallList ==
    /\ runState = "running" /\ step = "List" /\ phase = "idle"
    /\ OpenSocket(ListReq)
    /\ UNCHANGED <<DO_CREATE, DO_ACTIVATE, runState, exitStatus, raised, i,
                   step, buf, resp, list_id, create_id, target_id, sent, skips, got,
                   total, slept, lateConn, lateBytes, stubOnly, fwVars>>

\* lines 78-81: list_id = first_window_id(list_resp); create_id = ""
AfterList ==
    /\ runState = "running" /\ step = "List" /\ phase = "ret"
    /\ LET r == first_window_id(resp) IN
       IF r.exc # "none"
       THEN /\ Propagate(r.exc)
            /\ UNCHANGED <<step, phase, got>>
       ELSE /\ list_id' = r.v
            /\ got' = Append(got, r.v)
            /\ create_id' = Str("")
            /\ step' = IF DO_CREATE THEN "Create" ELSE "Activate"
            /\ phase' = "idle"
            /\ resp' = EmptyResp
            /\ written' = <<>>
            /\ UNCHANGED <<raised, sock, runState, exitStatus, waited, elapsed,
                           req, buf, loopExit, target_id, peerPlan, peerPos,
                           peerEnd, inbox, readTimeouts, lateConn,
                           lateBytes>>
    /\ UNCHANGED <<DO_CREATE, DO_ACTIVATE, i, nconn, sent, skips, total, slept,
                   stubOnly, fwVars>>

\* lines 82-90: bench("CreateWindow", ...)
CallCreate ==
    /\ runState = "running" /\ step = "Create" /\ phase = "idle"
    /\ OpenSocket(CreateReq)
    /\ UNCHANGED <<DO_CREATE, DO_ACTIVATE, runState, exitStatus, raised, i,
                   step, buf, resp, list_id, create_id, target_id, sent, skips, got,
                   total, slept, lateConn, lateBytes, stubOnly, fwVars>>

\* line 91: create_id = first_window_id(create_resp)
AfterCreate ==
    /\ runState = "running" /\ step = "Create" /\ phase = "ret"
    /\ LET r == first_window_id(resp) IN
       IF r.exc # "none"
       THEN /\ Propagate(r.exc)
            /\ UNCHANGED <<step, phase, got>>
       ELSE /\ create_id' = r.v
            /\ got' = Append(got, r.v)
            /\ step' = "Activate"
            /\ phase' = "idle"
            /\ resp' = EmptyResp
            /\ written' = <<>>
            /\ UNCHANGED <<raised, sock, runState, exitStatus, waited, elapsed,
                           req, buf, loopExit, list_id, target_id, peerPlan,
                           peerPos, peerEnd, inbox, readTimeouts,
                           lateConn, lateBytes>>
    /\ UNCHANGED <<DO_CREATE, DO_ACTIVATE, i, nconn, sent, skips, total, slept,
                   stubOnly, fwVars>>

\* (mutant) the created window is preferred
TargetCreateFirst(l, c) == Or(c, l)

\* (mutant) the target of the last activation is kept as a fallback
TargetSticky(l, c) == Or(l, Or(c, target_id))

\* line 94: target_id = list_id or create_id
Target(l, c) == Or(l, c)

\* (mutant) with DO_ACTIVATE false the skip notice is still printed
NoActivateReportsSkip ==
    /\ runState = "running" /\ step = "Activate" /\ phase = "idle"
    /\ ~DO_ACTIVATE
    /\ step' = "Sleep"
    /\ skips' = skips + 1
    /\ UNCHANGED <<DO_CREATE, DO_ACTIVATE, runState, exitStatus, raised, i,
                   buf, resp, list_id, create_id, target_id, sent, got,
                   total, slept, lateConn, lateBytes, stubOnly, exchangeVars,
                   fwVars>>

\* line 93 with DO_ACTIVATE false: nothing happens before the sleep
NoActivate ==
    /\ runState = "running" /\ step = "Activate" /\ phase = "idle"
    /\ ~DO_ACTIVATE
    /\ step' = "Sleep"
    /\ UNCHANGED <<DO_CREATE, DO_ACTIVATE, runState, exitStatus, raised, i,
                   buf, resp, list_id, create_id, target_id, sent, skips, got,
                   total, slept, lateConn, lateBytes, stubOnly, exchangeVars,
                   fwVars>>

\* lines 93-104: bench("ActivateWindow", ...) with window_id = target_id
CallActivate ==
    /\ runState = "running" /\ step = "Activate" /\ phase = "idle"
    /\ DO_ACTIVATE
    /\ Truthy(Target(list_id, create_id))
    /\ target_id' = Target(list_id, create_id)
    /\ OpenSocket(ActivateReq(Target(list_id, create_id)))
    /\ UNCHANGED <<DO_CREATE, DO_ACTIVATE, runState, exitStatus, raised, i,
                   step, buf, resp, list_id, create_id, sent, skips, got, total,
                   slept, lateConn, lateBytes, stubOnly, fwVars>>

\* lines 93-95, 105-106: print("ActivateWindow: skipped (no window_id)")
ReportSkip ==
    /\ runState = "running" /\ step = "Activate" /\ phase = "idle"
    /\ DO_ACTIVATE
    /\ ~Truthy(Target(list_id, create_id))
    /\ target_id' = Target(list_id, create_id)
    /\ skips' = skips + 1
    /\ step' = "Sleep"
    /\ UNCHANGED <<got, DO_CREATE, DO_ACTIVATE, runState, exitStatus, raised, i,
                   buf, resp, list_id, create_id, sent, total, slept, lateConn,
                   lateBytes, stubOnly, exchangeVars, fwVars>>

\* line 96: the value of bench("ActivateWindow", ...) is dropped
AfterActivate ==
    /\ runState = "running" /\ step = "Activate" /\ phase = "ret"
    /\ step' = "Sleep"
    /\ phase' = "idle"
    /\ resp' = EmptyResp
    /\ written' = <<>>
    /\ UNCHANGED <<DO_CREATE, DO_ACTIVATE, runState, exitStatus, raised, i,
                   sock, nconn, waited, elapsed, req, buf, loopExit, list_id,
                   create_id, target_id, sent, skips, got, total, slept, peerPlan,
                   peerPos, peerEnd, inbox, readTimeouts, lateConn,
                   lateBytes, stubOnly, fwVars>>

\* line 108 and line 74: time.sleep(SLEEP_SECS), then the next iteration or
\* the end of main (exit status 0)
Sleep ==
    /\ runState = "running" /\ step = "Sleep" /\ phase = "idle"
    /\ slept' = slept + 1
    /\ IF i < COUNT
       THEN /\ i' = i + 1
            /\ step' = "List"
            /\ sent' = <<>>
            /\ skips' = 0
            /\ got' = <<>>
            /\ UNCHANGED <<runState, exitStatus>>
       ELSE /\ runState' = "completed"
            /\ exitStatus' = 0
            /\ UNCHANGED <<i, step, sent, skips, got>>
    /\ UNCHANGED <<DO_CREATE, DO_ACTIVATE, raised, buf, resp, list_id,
                   create_id, target_id, total, lateConn, lateBytes, stubOnly,
                   exchangeVars, fwVars>>

\* (mutant) KeyboardInterrupt is not handled: traceback, exit status 1
InterruptUncaught ==
    /\ runState = "running"
    /\ raised' = "KeyboardInterrupt"
    /\ sock' = IF sock = "open" THEN "closed" ELSE sock
    /\ runState' = "interrupted"
    /\ exitStatus' = 1
    /\ ProcessGone
    /\ UNCHANGED <<DO_CREATE, DO_ACTIVATE, i, step, phase, nconn, sent, skips, got,
                   total, slept, stubOnly, fwVars>>

\* lines 111-115: KeyboardInterrupt at any point of main; the with block
\* closes an open socket on the way out, then sys.exit(130)
Interrupt ==
    /\ runState = "running"
    /\ raised' = "KeyboardInterrupt"
    /\ sock' = IF sock = "open" THEN "closed" ELSE sock
    /\ runState' = "interrupted"
    /\ exitStatus' = 130
    /\ ProcessGone
    /\ UNCHANGED <<DO_CREATE, DO_ACTIVATE, i, step, phase, nconn, sent, skips, got,
                   total, slept, stubOnly, fwVars>>

Next ==
    \/ CallList \/ AfterList \/ CallCreate \/ AfterCreate
    \/ NoActivate \/ CallActivate \/ ReportSkip \/ AfterActivate \/ Sleep
    \/ Tick \/ ConnectOk \/ ConnectFail \/ ConnectTimeout
    \/ SendComplete \/ SendTimeout \/ SendBrokenPipe
    \/ RecvChunk \/ RecvEOF \/ RecvTimeout \/ RecvReset \/ Decode
    \/ PeerClose \/ PeerLateWrite
    \/ Interrupt

Spec == Init /\ [][Next]_vars

(***************************************************************************)
(* A run with creation and activation disabled (every call of send_rpc is  *)
(* the ListWindows call), under the scheduling the process gets: the clock *)
(* advances and the program takes its next step; the peer and the signal   *)
(* are free.                                                               *)
(***************************************************************************)
ListOnlyInit ==
    /\ DO_CREATE = FALSE
    /\ DO_ACTIVATE = FALSE
    /\ MainInit
    /\ FwIdle

ListOnlyProgramStep ==
    \/ CallList \/ AfterList \/ NoActivate \/ Sleep
    \/ ConnectTimeout \/ SendTimeout \/ SendBrokenPipe
    \/ RecvEOF \/ RecvTimeout \/ RecvReset \/ Decode

ListOnlyNext ==
    \/ CallList \/ AfterList \/ NoActivate \/ Sleep
    \/ Tick \/ ConnectOk \/ ConnectFail \/ ConnectTimeout
    \/ SendComplete \/ SendTimeout \/ SendBrokenPipe
    \/ RecvChunk \/ RecvEOF \/ RecvTimeout \/ RecvReset \/ Decode
    \/ PeerClose \/ PeerLateWrite
    \/ Interrupt

FairSpec ==
    /\ ListOnlyInit
    /\ [][ListOnlyNext]_vars
    /\ WF_vars(Tick)
    /\ WF_vars(ListOnlyProgramStep)

(***************************************************************************)
(* first_window_id as a function: inputs drawn from a bounded set of       *)
(* Response shapes                                                         *)
(***************************************************************************)
Absent == [t |-> "absent", n |-> 0, s |-> "", items |-> <<>>, keys |-> <<>>]

IdKeys == <<"window_id", "id", "windowId">>

\* the values key number j may hold; strings and numbers differ per key
KeyOpts(j) ==
    LET name == <<"A1", "B2", "C3">>[j] IN
    {Absent, Str(""), Str(name), Num(0), Num(j), Null, List(<<Str(name)>>)}

SmallOpts(j) ==
    LET name == <<"A1", "B2", "C3">>[j] IN {Absent, Str(""), Str(name)}

PutOpt(d, k, v) == IF v = Absent THEN d ELSE Put(d, k, v)

MkMap(a, b, c) ==
    PutOpt(PutOpt(PutOpt(EmptyResp, "window_id", a), "id", b), "windowId", c)

Mappings == {MkMap(a, b, c) : a \in KeyOpts(1), b \in KeyOpts(2), c \in KeyOpts(3)}

SmallMaps ==
    {MkMap(a, b, c) : a \in SmallOpts(1), b \in SmallOpts(2), c \in SmallOpts(3)}

WindowsVals ==
    {Null, Num(5), Str("W7"), List(<<>>), List(<<Str("W7")>>), List(<<Str("")>>),
     List(<<Num(5)>>), List(<<Str("W7"), Str("W8")>>)}
    \cup {List(<<m>>) : m \in SmallMaps}

ResultVals ==
    {Absent, Null, Num(5), Str("W1"), List(<<>>), List(<<Num(5)>>),
     List(<<Null>>), List(<<List(<<Str("W1")>>)>>), List(<<Str("")>>),
     List(<<Str("W1"), Str("W2")>>)}
    \cup {List(<<m>>) : m \in Mappings}
    \cup {List(<<m, Str("W9")>>) : m \in SmallMaps}
    \cup Mappings
    \cup {Put(own, "windows", w) : own \in SmallMaps, w \in WindowsVals}

FwInputs == {PutOpt(EmptyResp, "result", res) : res \in ResultVals}

ExtractInit ==
    /\ DO_CREATE = TRUE
    /\ DO_ACTIVATE = TRUE
    /\ MainInit
    /\ fw_in \in FwInputs
    /\ fw_out = Returns(Str(""))
    /\ fw_pc = "in"

\* a call first_window_id(fw_in)
ExtractCall ==
    /\ fw_pc = "in"
    /\ fw_out' = first_window_id(fw_in)
    /\ fw_pc' = "out"
    /\ UNCHANGED <<fw_in, mainVars>>

ExtractNext == ExtractCall

ExtractSpec == ExtractInit /\ [][ExtractNext]_vars

(***************************************************************************)
(* Properties                                                              *)
(***************************************************************************)
InExchange == phase \in {"connect", "send", "recv"}

ConnectionFailures == {"FileNotFoundError", "ConnectionRefusedError"}

NonEmpty(v) == v # Str("")

ActivateSent == {k \in 1..Len(sent) : sent[k].method = "ActivateWindow"}

SumTotal == total["ListWindows"] + total["CreateWindow"] + total["ActivateWindow"]

\* C1 (as claimed): a write of the request that cannot complete before the
\* deadline raises nothing; send_rpc returns the empty Response as after a
\* read timeout.
C1_WriteTimeoutRaisesNothing ==
    ~(phase = "send" /\ raised = "timeout" /\ runState = "failed")

\* C2 (as claimed): no reply the peer sends on an established connection
\* aborts the run; after send_rpc has returned the iteration goes on to its
\* next step.
C2_NoReplyAbortsRun ==
    ~(phase = "ret" /\ runState = "failed")

\* C3 (as claimed): counted from settimeout, one exchange never blocks for
\* more than one timeout period, whatever the peer does.
C3_ExchangeWithinTimeout ==
    phase \in {"connect", "send", "recv", "decode"} => elapsed <= Timeout

\* C4: once the request is written to a peer that never replies and never
\* closes, send_rpc returns, after exactly one read timeout, the empty
\* Response and raises nothing (unless the process is interrupted meanwhile).
C4_SilentPeerReturnsEmpty ==
    (runState = "running" /\ phase = "recv" /\ peerPlan = Silent)
      ~> \/ /\ phase = "ret" /\ runState = "running" /\ raised = "none"
            /\ resp = EmptyResp /\ loopExit = "timeout" /\ readTimeouts = 1
         \/ runState = "interrupted"

C4_Witness ==
    /\ phase = "ret" /\ runState = "running" /\ loopExit = "timeout"
    /\ readTimeouts = 1 /\ resp = EmptyResp /\ step = "List" /\ i = 2

\* C5: a connection is open only while an exchange is in progress: whenever
\* send_rpc has returned, an exception has propagated or the process was
\* interrupted, the socket it opened is closed.
C5_ConnectionScopedToExchange ==
    /\ sock = "open" => (runState = "running" /\ InExchange)
    /\ (nconn > 0 /\ ~(runState = "running" /\ InExchange)) => sock = "closed"

C5_Witness ==
    /\ runState = "failed" /\ raised = "timeout" /\ phase = "send"
    /\ sock = "closed" /\ nconn = 2

\* C6: a connection failure is neither caught nor retried: the run is in the
\* failed state (exit status 1, neither 0 nor 130), its socket closed, no
\* request is written and no socket opened afterwards, and a failure of the
\* very first connect leaves no iteration completed and no request sent.
C6_ConnectionFailureStopsRun ==
    [][ /\ raised' \in ConnectionFailures =>
             /\ runState' = "failed"
             /\ exitStatus' = 1
             /\ sock' = "closed"
             /\ (nconn' = 1 => (slept' = 0 /\ SumTotal' = 0 /\ i' = 1))
        /\ raised \in ConnectionFailures =>
             UNCHANGED <<total, sent, nconn, runState, exitStatus>>
      ]_vars

C6_Witness ==
    /\ raised \in ConnectionFailures /\ runState = "failed" /\ nconn = 1
    /\ slept = 0 /\ SumTotal = 0

\* C7: once the activation step of an iteration is over, target_id is list_id
\* if that is non-empty and create_id otherwise; if it is non-empty exactly
\* one ActivateWindow request with that window_id was sent and no skip was
\* reported, otherwise no ActivateWindow was sent and exactly one skip was
\* reported.  An ActivateWindow request is only ever sent with a non-empty
\* window_id equal to that target.  Against a peer that only ever replies
\* {"result": []} no ActivateWindow is sent and every iteration skips.
C7_ActivationTarget ==
    LET t == IF NonEmpty(list_id) THEN list_id ELSE create_id IN
    /\ (runState = "running" /\ DO_ACTIVATE /\ step = "Sleep") =>
          /\ target_id = t
          /\ IF NonEmpty(t)
             THEN /\ Cardinality(ActivateSent) = 1 /\ skips = 0
                  /\ \A k \in ActivateSent : sent[k].window_id = t
             ELSE ActivateSent = {} /\ skips = 1
    /\ (runState = "running" /\ ActivateSent # {}) =>
          /\ DO_ACTIVATE /\ NonEmpty(t) /\ skips = 0
          /\ \A k \in ActivateSent : sent[k].window_id = t
    /\ stubOnly =>
          /\ total["ActivateWindow"] = 0
          /\ (DO_ACTIVATE /\ step = "Sleep") => skips = 1

C7_Witness ==
    /\ runState = "running" /\ DO_ACTIVATE /\ step = "Sleep" /\ i = 2
    /\ list_id = Str("W1") /\ create_id = Str("W2")
    /\ \E k \in ActivateSent : sent[k].window_id = Str("W1")

\* the mapping first_window_id takes the identifier of r from, or Absent
\* when it takes it from a string or finds nothing to look into
IdSource(r) ==
    LET res == Get(r, "result") IN
    IF res.t = "list"
    THEN IF res.items # <<>> /\ res.items[1].t = "dict"
         THEN res.items[1] ELSE Absent
    ELSE IF res.t = "dict"
    THEN LET w == Get(res, "windows") IN
         IF w.t = "list" /\ w.items # <<>> /\ w.items[1].t = "dict"
         THEN w.items[1]
         ELSE IF w.t = "list" /\ w.items # <<>> /\ w.items[1].t = "str"
         THEN Absent
         ELSE res
    ELSE Absent

\* the value of the first key of IdKeys that is present in m, else ""
FirstPresent(m) ==
    LET present == {j \in 1..3 : HasKey(m, IdKeys[j])} IN
    IF present = {} THEN Str("")
    ELSE Get(m, IdKeys[CHOOSE j \in present : \A k \in present : j <= k])

\* the value of the first key of IdKeys whose value in m is truthy, else ""
FirstTruthy(m) ==
    LET truthy == {j \in 1..3 : Truthy(Get(m, IdKeys[j]))} IN
    IF truthy = {} THEN Str("")
    ELSE Get(m, IdKeys[CHOOSE j \in truthy : \A k \in truthy : j <= k])

\* C8 (as claimed): the value returned is the value of the first key present
\* among window_id, id, windowId, and a present window_id is returned
\* whatever its value is, the empty string included.
C8_FirstPresentKey ==
    (fw_pc = "out" /\ IdSource(fw_in) # Absent) =>
        /\ fw_out.exc = "none"
        /\ fw_out.v = FirstPresent(IdSource(fw_in))

\* C8 (amended): the value returned is the value of the first key among
\* window_id, id, windowId whose value is truthy (not null, not empty, not
\* zero), and the empty string when there is none; a truthy window_id is
\* returned whatever id and windowId hold.
C8_FirstTruthyKey ==
    (fw_pc = "out" /\ IdSource(fw_in) # Absent) =>
        /\ fw_out.exc = "none"
        /\ fw_out.v = FirstTruthy(IdSource(fw_in))
        /\ Truthy(Get(IdSource(fw_in), "window_id"))
              => fw_out.v = Get(IdSource(fw_in), "window_id")

C8_Witness ==
    /\ fw_pc = "out"
    /\ IdSource(fw_in) # Absent
    /\ Get(IdSource(fw_in), "window_id") = Str("")
    /\ Get(IdSource(fw_in), "id") = Str("B2")
    /\ fw_out.v = Str("B2")

\* C9 (as claimed): on every Response object first_window_id raises nothing
\* and returns a string.
C9_ReturnsString ==
    fw_pc = "out" => (fw_out.exc = "none" /\ fw_out.v.t = "str")

\* C10: every call opens one connection and writes at most one request on
\* it (the requests written number the sockets opened, less the current one
\* while its request is not yet written); what send_rpc accumulates is a
\* prefix of what the peer wrote on that same connection, and the Response
\* is decoded from that alone: bytes the peer writes late on an older
\* connection never reach a later exchange.
C10_OneRequestOneResponsePerConnection ==
    [][ /\ (phase' \in {"connect", "send"} /\ nconn' > 0) => SumTotal' = nconn' - 1
        /\ phase' \in {"recv", "decode", "ret"} => SumTotal' = nconn'
        /\ nconn' \in {nconn, nconn + 1}
        /\ SumTotal' \in {SumTotal, SumTotal + 1}
        /\ (phase' \in {"recv", "decode"} /\ runState' = "running")
              => (IsPrefix(buf', written') /\ inbox' = <<>>)
        /\ (phase = "decode" /\ phase' = "ret") =>
              resp' = DecodePayload(IF HasLF(written) THEN BeforeLF(written)
                                    ELSE written)
      ]_vars

C10_Witness ==
    /\ lateConn # 0 /\ lateConn < nconn /\ lateBytes = <<>>
    /\ phase = "decode" /\ runState = "running" /\ loopExit = "terminator"
    /\ buf # <<>>

\* C11: whenever the candidate payload is empty or cannot be decoded,
\* send_rpc returns the empty Response and raises nothing, and the driver is
\* left exactly as after a reply of zero bytes: same Response, nothing else
\* changed.
C11_UndecodablePayloadIsEmptyResponse ==
    [][ (phase = "decode" /\ phase' = "ret" /\ (buf = <<>> \/ ~Loads(buf).ok)) =>
            /\ resp' = EmptyResp
            /\ resp' = DecodePayload(<<>>)
            /\ raised' = "none" /\ runState' = "running"
            /\ UNCHANGED <<i, step, list_id, create_id, target_id, sent, skips,
                           got, total, slept, sock>>
      ]_vars

C11_Witness ==
    /\ phase = "ret" /\ runState = "running" /\ resp = EmptyResp
    /\ loopExit = "terminator" /\ raised = "none" /\ step = "Create"
    /\ written = <<"xFF", "LF">>

\* C12: an interruption can arrive in every state of a running driver; it
\* ends the process with status 130, its socket closed, and nothing is sent
\* or opened afterwards; normal completion ends with status 0 and a
\* propagated exception with status 1.
C12_InterruptExits130 ==
    [][ /\ runState = "running" => ENABLED Interrupt
        /\ runState' = "interrupted" =>
              (exitStatus' = 130 /\ sock' # "open" /\ UNCHANGED <<total, sent, nconn>>)
        /\ runState = "interrupted" =>
              UNCHANGED <<total, sent, nconn, runState, exitStatus, sock>>
        /\ runState' = "completed" => exitStatus' = 0
        /\ runState' = "failed" => exitStatus' = 1
      ]_vars

C12_Witness ==
    /\ runState = "interrupted" /\ exitStatus = 130 /\ phase = "recv"
    /\ sock = "closed" /\ step = "Activate"

\* C13: a run that has ended, and ended neither by an interruption nor
\* inside an exchange (no connection failure, every send_rpc call returned),
\* has ended in the completed state after exactly COUNT iterations, COUNT
\* ListWindows requests and COUNT sleeps.
C13_TerminatesAfterCountIterations ==
    (runState \in {"completed", "failed"} /\ ~(runState = "failed" /\ InExchange)) =>
        /\ runState = "completed"
        /\ i = COUNT /\ slept = COUNT
        /\ total["ListWindows"] = COUNT

C15_ReadLoopEndsOnThreeEvents ==
    [][ /\ (phase = "recv" /\ phase' # "recv" /\ runState' = "running") =>
              /\ phase' = "decode" /\ sock' = "closed"
              /\ loopExit' \in {"terminator", "eof", "timeout"}
              /\ loopExit' = "terminator" =>
                    /\ ~HasLF(buf')
                    /\ IsPrefix(buf' \o <<"LF">>, written')
              /\ loopExit' \in {"eof", "timeout"} =>
                    /\ buf' = written' /\ ~HasLF(buf')
              /\ loopExit' = "eof" => peerEnd = "closed" /\ buf' = buf
              /\ loopExit' = "timeout" => waited = Timeout /\ buf' = buf
        /\ (phase = "recv" /\ phase' = "recv" /\ runState' = "running") =>
              /\ buf' = written' /\ ~HasLF(buf') /\ IsPrefix(buf, buf')
        /\ (phase = "decode" /\ runState' = "running") =>
              /\ phase' \in {"decode", "ret"}
              /\ phase' = "decode" => buf' = buf
              /\ UNCHANGED <<written, nconn, sock, loopExit>>
      ]_vars

C15_Witness ==
    /\ runState = "running" /\ phase = "decode" /\ loopExit = "terminator"
    /\ written = <<"{", "}", "LF", "{", "}">>
    /\ buf = <<"{", "}">>
    /\ sock = "closed"

\* the identifier one element of a sequence stands for: a string verbatim,
\* a mapping by key priority, anything else none
ElemId(e) ==
    IF e.t = "str" THEN e
    ELSE IF e.t = "dict" THEN FirstTruthy(e)
    ELSE Str("")

\* the resolution order with first match winning
FirstMatch(r) ==
    LET res == Get(r, "result") IN
    IF res.t = "list" /\ res.items # <<>>
    THEN ElemId(res.items[1])
    ELSE IF res.t = "dict"
    THEN LET windows == Get(res, "windows") IN
         IF windows.t = "list" /\ windows.items # <<>>
         THEN ElemId(windows.items[1])
         ELSE FirstTruthy(res)
    ELSE Str("")

\* C16 (as claimed): first_window_id follows the resolution order, first
\* match winning: a non-empty result sequence decides by its first element
\* alone, a non-empty windows sequence by its first element alone, and the
\* result mapping's own keys count only when windows is absent, not a
\* sequence, or empty; in every other case the identifier is empty.
C16_FirstMatchWins ==
    fw_pc = "out" => (fw_out.exc = "none" /\ fw_out.v = FirstMatch(fw_in))

\* the id each method is sent with
MethodOfId(r) ==
    \/ r.method = "ListWindows" /\ r.id = 1
    \/ r.method = "CreateWindow" /\ r.id = 2
    \/ r.method = "ActivateWindow" /\ r.id = 3

\* C17: a socket is opened only between calls, when no socket is open, and
\* an open socket belongs to the call in progress, so exchanges never
\* overlap; the requests of an iteration are sent one at a time in the order
\* ListWindows (id 1), CreateWindow (id 2), ActivateWindow (id 3), beginning
\* with ListWindows; and every request of iteration i is sent after exactly
\* i - 1 sleeps, the requests of iteration i + 1 beginning only with the
\* sleep that ends iteration i.
C17_SequentialOrderedRequests ==
    [][ /\ nconn' # nconn =>
              /\ nconn' = nconn + 1
              /\ sock # "open" /\ phase = "idle" /\ sock' = "open"
              /\ slept = i - 1
        /\ sock' = "open" => phase' \in {"connect", "send", "recv"}
        /\ sent' # sent =>
              \/ /\ sent' = <<>> /\ step = "Sleep" /\ phase = "idle"
                 /\ i' = i + 1 /\ slept' = slept + 1
              \/ /\ Len(sent') = Len(sent) + 1
                 /\ SubSeq(sent', 1, Len(sent)) = sent
                 /\ sock = "open" /\ i' = i /\ slept = i - 1
        /\ i' # i => (step = "Sleep" /\ sent' = <<>> /\ sock # "open")
        /\ \A k \in 1..Len(sent') :
              /\ MethodOfId(sent'[k])
              /\ \A j \in 1..(k - 1) : sent'[j].id < sent'[k].id
        /\ sent' # <<>> => sent'[1] = ListReq
      ]_vars

C17_Witness ==
    /\ i = 2 /\ slept = 1 /\ runState = "running"
    /\ Len(sent) = 3
    /\ sent[1].id = 1 /\ sent[2].id = 2 /\ sent[3].id = 3
    /\ phase = "ret" /\ sock = "closed"

\* C18: with DO_CREATE false no CreateWindow request is ever sent, no
\* identifier comes from a creation and every activation targets list_id;
\* with DO_ACTIVATE false no ActivateWindow request is ever sent and no skip
\* is ever reported, whatever was extracted; and whatever the flags, every
\* iteration sends ListWindows before anything else and once only.
C18_FlagsGateSteps ==
    /\ ~DO_CREATE =>
          /\ total["CreateWindow"] = 0
          /\ step # "Create"
          /\ \A k \in 1..Len(sent) : sent[k].method # "CreateWindow"
          /\ create_id = Str("")
          /\ Len(got) <= 1
          /\ \A k \in ActivateSent :
                /\ sent[k].window_id = got[1]
                /\ runState = "running" => sent[k].window_id = list_id
    /\ ~DO_ACTIVATE =>
          /\ total["ActivateWindow"] = 0
          /\ ActivateSent = {}
          /\ skips = 0
          /\ ~(step = "Activate" /\ phase # "idle")
    /\ (runState = "running" /\ (step # "List" \/ phase \in {"recv", "decode", "ret"})) =>
          /\ sent # <<>> /\ sent[1] = ListReq
          /\ \A k \in 2..Len(sent) : sent[k].method # "ListWindows"
          /\ total["ListWindows"] = i

C18_Witness ==
    /\ ~DO_CREATE /\ ~DO_ACTIVATE
    /\ runState = "running" /\ step = "Sleep" /\ i = 2
    /\ list_id = Str("W1")
    /\ sent = <<ListReq>>
    /\ total = [m \in Methods |-> IF m = "ListWindows" THEN 2 ELSE 0]
    /\ skips = 0

\* C19: the window_id of every ActivateWindow request sent in an iteration
\* is a non-empty identifier extracted from a Response of that same
\* iteration (got holds what this iteration has extracted, the ListWindows
\* value first); when the iteration has extracted nothing but empty
\* identifiers it sends no ActivateWindow and reports the skip, also when
\* an earlier iteration had activated a window.
C19_NoIdentifierAcrossIterations ==
    /\ Len(got) <= 2
    /\ \A k \in ActivateSent :
          \E j \in 1..Len(got) : Truthy(got[j]) /\ sent[k].window_id = got[j]
    /\ (step \in {"Activate", "Sleep"} /\ \A j \in 1..Len(got) : ~Truthy(got[j])) =>
          /\ ActivateSent = {}
          /\ ~(step = "Activate" /\ phase # "idle")
          /\ (step = "Sleep" /\ DO_ACTIVATE) => skips = 1

C19_Witness ==
    /\ DO_CREATE /\ DO_ACTIVATE /\ runState = "running"
    /\ i = 2 /\ step = "Sleep"
    /\ got = <<Str(""), Str("")>>
    /\ total["ActivateWindow"] = 1
    /\ sent = <<ListReq, CreateReq>>
    /\ skips = 1

====
